---- MODULE Spec2Model ----
(***************************************************************************)
(* A model of sentry-tracing: the SentryLayer fan-out (src/src/layer.rs),  *)
(* the SpanLayer span aggregation with its per-span Trace extension, and   *)
(* the FieldVisitor attribute extraction (src/src/converters.rs).          *)
(*                                                                         *)
(* The host (tracing-subscriber's Registry) is modelled by what the code   *)
(* reads from it: a span's metadata, its parent chain, and the fact that a *)
(* span holds a reference to its parent, so that a span is closed only     *)
(* after all its children are.                                             *)
(***************************************************************************)
EXTENDS Integers, Sequences, FiniteSets, TLC

\* ------------------------------------------------------------------ bounds

\* Number of span ids the registry hands out in one behaviour.
MaxSpans == 3

\* Last tick of the monotonic clock.
MaxTime == 3

\* Number of spans in the runs that exercise the fan-out over every filter
\* answer, and in the runs with a running clock.
MaxFanSpans == 1

MaxTimedSpans == 1

\* The spans of the runs that emit events inside entered spans.
MaxCtxSpans == 2

\* The threads that run callbacks at the same time.
MaxThreads == 2

\* The most attributes one event of the conversion runs carries.
MaxAttrs == 2

SpanIds == 1..MaxSpans

Threads == 1..MaxThreads

\* ---------------------------------------------------------------- options

\* Option<T> is a sequence of length at most one.
None == <<>>

Some(x) == <<x>>

\* The three sub-handlers SentryLayer::new composes, each behind its own filter.
Layers == {"span", "event", "breadcrumb"}

\* What an EnvFilter answers for one callsite: its register_callsite interest,
\* and for a "sometimes" callsite what its enabled() answers.
Verdicts == {"always", "sometimes_on", "sometimes_off", "never"}

\* Layered<EnvFilter, _, S>::register_callsite: the filter's interest (the
\* wrapped layer's own default interest is always).
FilterInterest(layer, md) ==
  CASE md.filt[layer] = "always" -> "always"
    [] md.filt[layer] = "never" -> "never"
    [] OTHER -> "sometimes"

\* Layered<EnvFilter, _, S>::enabled: the filter's predicate on the metadata
\* (the wrapped layer's own default enabled is true).
FilterEnabled(layer, md) == md.filt[layer] \in {"always", "sometimes_on"}

\* ------------------------------------------------------- field extraction

\* serde_json::Value as the visitor builds it: a number, a boolean or a string.
NumberValue(n) == [t |-> "Number", n |-> n, s |-> ""]

BoolValue(b) == [t |-> "Bool", n |-> IF b THEN 1 ELSE 0, s |-> ""]

StringValue(str) == [t |-> "String", n |-> 0, s |-> str]

\* BTreeMap<String, Value>: a function from the keys present.
EmptyMap == [k \in {} |-> NumberValue(0)]

MapInsert(m, key, v) ==
  [k \in (DOMAIN m) \cup {key} |-> IF k = key THEN v ELSE m[k]]

Digits == <<"0", "1", "2", "3", "4", "5", "6", "7", "8", "9">>

RECURSIVE NatToString(_)
NatToString(n) ==
  IF n < 10 THEN Digits[n + 1]
  ELSE NatToString(n \div 10) \o Digits[(n % 10) + 1]

\* Display of an integer, as value.to_string() renders it.
IntToString(n) == IF n < 0 THEN "-" \o NatToString(-n) ELSE NatToString(n)

BoolToString(b) == IF b THEN "true" ELSE "false"

RECURSIVE Reverse(_)
Reverse(seq) ==
  IF seq = <<>> THEN <<>>
  ELSE Append(Reverse(Tail(seq)), Head(seq))

\* One attribute as the front-end hands it to the visitor. kind is the
\* record_* method tracing calls for it; n, b, s carry the value (s is the
\* Debug rendering for kind "debug"); chain is the error with its sources,
\* outermost first, each [ty, msg].
Attr(name, kind, n, b, s, chain) ==
  [name |-> name, kind |-> kind, n |-> n, b |-> b, s |-> s, chain |-> chain]

\* FieldVisitorResult::default().
FieldVisitorResult_default ==
  [event_type |-> None, json_values |-> EmptyMap, expections |-> <<>>]

record_json_value(result, name, json_value) ==
  [result EXCEPT !.json_values = MapInsert(@, name, json_value)]

\* True when the field is the configured event_type_field.
is_event_type(event_type_field, name) ==
  event_type_field # None /\ name = event_type_field[1]

\* record_display storing the promoted field in json_values as well.
record_display_Both(event_type_field, result, name, display, json_value) ==
  IF is_event_type(event_type_field, name)
  THEN record_json_value([result EXCEPT !.event_type = Some(display)],
                         name, json_value)
  ELSE record_json_value(result, name, json_value)

\* try_record_event_type followed by the caller's record_json_value when it
\* answers false.
record_display(event_type_field, result, name, display, json_value) ==
  IF is_event_type(event_type_field, name)
  THEN [result EXCEPT !.event_type = Some(display)]
  ELSE record_json_value(result, name, json_value)

\* sentry_core::event_from_error: one exception per error of the chain,
\* reversed so that the root cause comes first.
exception_from_error(err) ==
  [ty |-> err.ty, value |-> Some(err.msg), stacktrace |-> FALSE, module |-> None]

event_from_error(chain) ==
  Reverse([i \in 1..Len(chain) |-> exception_from_error(chain[i])])

record_error(result, chain) ==
  [result EXCEPT !.expections = @ \o event_from_error(chain)]

\* impl Visit for FieldVisitor: the method tracing picks by the value's type.
Visit(event_type_field, result, a) ==
  CASE a.kind \in {"i64", "u64"} ->
         record_display(event_type_field, result, a.name,
                        IntToString(a.n), NumberValue(a.n))
    [] a.kind = "bool" ->
         record_display(event_type_field, result, a.name,
                        BoolToString(a.b), BoolValue(a.b))
    [] a.kind \in {"str", "debug"} ->
         record_display(event_type_field, result, a.name, a.s, StringValue(a.s))
    [] a.kind = "error" -> record_error(result, a.chain)

\* attrs.record(&mut visitor) / event.record(&mut visitor): every attribute
\* visited once, in declaration order.
RECURSIVE RecordAll(_, _, _)
RecordAll(event_type_field, result, attrs) ==
  IF attrs = <<>> THEN result
  ELSE RecordAll(event_type_field,
                 Visit(event_type_field, result, Head(attrs)), Tail(attrs))

HasError(attrs) == \E i \in 1..Len(attrs) : attrs[i].kind = "error"

\* ------------------------------------------------------------------ state

VARIABLES
  options,           \* the TracingIntegrationOptions SentryLayer::new was given
  spans,             \* the registry: per span id its data and extensions
  next_uuid,         \* the next value Uuid::new_v4 returns
  now,               \* Instant::now() / SystemTime::now()
  hub_active,        \* whether Hub::with_active finds a bound client
  sent,              \* the transactions handed to client.send_envelope, in order
  last_issue,        \* Option: the last event handed to capture_event
  last_breadcrumb,   \* Option: the last breadcrumb handed to add_breadcrumb
  last_hook,         \* the last SentryLayer callback and what it forwarded to
  last_event,        \* the event last handed to SentryLayer::on_event
  diagnostics,       \* the local diagnostics the layer wrote, in order
  threads            \* per thread: its place in SpanLayer::on_close and its locks

vars ==
  <<options, spans, next_uuid, now, hub_active, sent, last_issue,
    last_breadcrumb, last_hook, last_event, diagnostics, threads>>

\* A span extension slot with no Trace in it.
NoTrace == [tag |-> "NoTrace"]

NoMetadata == [tag |-> "NoMetadata"]

\* A thread outside SpanLayer::on_close. Inside it, pc is the place reached,
\* id the closing span, k the position of the loop over span.parents(), held
\* the spans whose extensions the thread has locked for writing, and data
\* and kids the locals span_data (Option) and spans.
IdleThread ==
  [pc |-> "idle", id |-> 0, k |-> 0, held |-> {}, data |-> None, kids |-> <<>>]

\* No event was handed to on_event yet.
NoEvent == [md |-> NoMetadata, attrs |-> <<>>, explicit |-> 0, current |-> 0]

\* A registry slot: state is "none" before the id is handed out, "open" while
\* the span is in the registry, "closed" once on_close has run and the
\* registry has dropped it. parent is 0 for a root. trace is the Trace in the
\* span's extensions. The other fields keep the history the properties are
\* stated over: attrs the creation attributes, span_data the protocol::Span
\* on_close built (Option), closed_at the rank of the close among all closes,
\* clock the times of creation and close, of the last enter, and the total
\* time spent between an enter and its exit.
NoClock == [created |-> 0, entered |-> 0, inside |-> 0, closed |-> 0]

NoSpan ==
  [state |-> "none", parent |-> 0, md |-> NoMetadata, entered |-> FALSE,
   trace |-> NoTrace, attrs |-> <<>>, span_data |-> None, closed_at |-> 0,
   clock |-> NoClock]

\* tracing::Metadata: what the code reads of it, and what each of the three
\* filters answers for it.
Md(name, target, level, filt) ==
  [name |-> name, target |-> target, level |-> level, filt |-> filt]

Filt(s, e, b) == [l \in Layers |-> CASE l = "span" -> s [] l = "event" -> e [] OTHER -> b]

\* uuid.to_simple_ref().to_string(): the hex rendering of the id.
UuidSimpleString(uuid) == [simple |-> uuid]

\* SpanRef::parents(): the ancestors of a span, nearest first.
RECURSIVE Parents(_, _)
Parents(S, id) ==
  IF S[id].parent = 0 THEN <<>>
  ELSE <<S[id].parent>> \o Parents(S, S[id].parent)

\* The ids among seq that own a Trace, in order.
RECURSIVE WithTrace(_, _)
WithTrace(S, seq) ==
  IF seq = <<>> THEN <<>>
  ELSE IF S[Head(seq)].trace # NoTrace
       THEN <<Head(seq)>> \o WithTrace(S, Tail(seq))
       ELSE WithTrace(S, Tail(seq))

\* Whether Trace::new finds a trace_id to inherit: span.parent() owns a Trace.
InheritsTraceId(S, id) ==
  S[id].parent # 0 /\ S[S[id].parent].trace # NoTrace

\* Trace::new: trace_id from the parent's Trace, else a fresh one; a fresh
\* span_id; counters at zero and the three timestamps at now.
Trace_new(S, id, t, uuid) ==
  [span_id |-> IF InheritsTraceId(S, id) THEN uuid ELSE uuid + 1,
   trace_id |-> IF InheritsTraceId(S, id) THEN S[S[id].parent].trace.trace_id
                ELSE uuid,
   visitor |-> FieldVisitorResult_default,
   spans |-> <<>>,
   idle |-> 0,
   busy |-> 0,
   last |-> t,
   first |-> t,
   last_sys |-> t]

\* The number of Uuid::new_v4 calls of Trace::new.
Trace_new_uuids(S, id) == IF InheritsTraceId(S, id) THEN 1 ELSE 2

\* SpanLayer::new_span: attach a Trace built from the creation attributes.
SpanLayer_new_span(S, id, attrs, etf, t, uuid) ==
  IF S[id].trace = NoTrace
  THEN [S EXCEPT ![id].trace =
          [Trace_new(S, id, t, uuid) EXCEPT
             !.visitor = RecordAll(etf, @, attrs)]]
  ELSE S

\* SpanLayer_on_enter without the update of last at line 261.
SpanLayer_on_enter_KeepLast(S, id, t) ==
  IF S[id].trace # NoTrace
  THEN [S EXCEPT ![id].trace.idle = @ + (t - S[id].trace.last)]
  ELSE S

\* SpanLayer::on_enter: the time since last was idle.
SpanLayer_on_enter(S, id, t) ==
  IF S[id].trace # NoTrace
  THEN [S EXCEPT ![id].trace.idle = @ + (t - S[id].trace.last),
                 ![id].trace.last = t]
  ELSE S

\* SpanLayer::on_exit: the time since last was busy.
SpanLayer_on_exit(S, id, t) ==
  IF S[id].trace # NoTrace
  THEN [S EXCEPT ![id].trace.busy = @ + (t - S[id].trace.last),
                 ![id].trace.last = t,
                 ![id].trace.last_sys = t]
  ELSE S

\* span_data_of with the error status of a child propagated to its parent
\* (the first TODO of line 319).
span_data_of_Propagated(S, id, t) ==
  LET trace == S[id].trace
      idle == trace.idle + (t - trace.last)
      visitor == trace.visitor
  IN [span_id |-> trace.span_id,
      trace_id |-> trace.trace_id,
      parent_span_id |-> None,
      op |-> Some(S[id].md.name),
      description |-> visitor.event_type,
      start_timestamp |-> trace.first,
      timestamp |-> Some(trace.last_sys),
      data |-> MapInsert(MapInsert(visitor.json_values,
                                   "busy", NumberValue(trace.busy)),
                         "idle", NumberValue(idle)),
      status |-> IF /\ visitor.expections = <<>>
                    /\ \A k \in 1..Len(trace.spans) :
                         trace.spans[k].status = Some("ok")
                 THEN Some("ok") ELSE Some("internal_error")]

\* span_data_of with the status never derived from the extracted errors.
span_data_of_StatusOk(S, id, t) ==
  LET trace == S[id].trace
      idle == trace.idle + (t - trace.last)
      visitor == trace.visitor
  IN [span_id |-> trace.span_id,
      trace_id |-> trace.trace_id,
      parent_span_id |-> None,
      op |-> Some(S[id].md.name),
      description |-> visitor.event_type,
      start_timestamp |-> trace.first,
      timestamp |-> Some(trace.last_sys),
      data |-> MapInsert(MapInsert(visitor.json_values,
                                   "busy", NumberValue(trace.busy)),
                         "idle", NumberValue(idle)),
      status |-> Some("ok")]

\* A map with the key set only when it has no value yet.
MapInsertIfAbsent(m, key, v) ==
  IF key \in DOMAIN m THEN m ELSE MapInsert(m, key, v)

\* span_data_of keeping a recorded attribute named busy or idle in place of
\* the timing value.
span_data_of_KeepAttrs(S, id, t) ==
  LET trace == S[id].trace
      idle == trace.idle + (t - trace.last)
      visitor == trace.visitor
  IN [span_id |-> trace.span_id,
      trace_id |-> trace.trace_id,
      parent_span_id |-> None,
      op |-> Some(S[id].md.name),
      description |-> visitor.event_type,
      start_timestamp |-> trace.first,
      timestamp |-> Some(trace.last_sys),
      data |-> MapInsertIfAbsent(
                 MapInsertIfAbsent(visitor.json_values,
                                   "busy", NumberValue(trace.busy)),
                 "idle", NumberValue(idle)),
      status |-> IF visitor.expections = <<>>
                 THEN Some("ok") ELSE Some("internal_error")]

\* protocol::Span as on_close builds it (lines 298-327), before any parent is
\* known.
span_data_of(S, id, t) ==
  LET trace == S[id].trace
      idle == trace.idle + (t - trace.last)
      visitor == trace.visitor
  IN [span_id |-> trace.span_id,
      trace_id |-> trace.trace_id,
      parent_span_id |-> None,
      op |-> Some(S[id].md.name),
      description |-> visitor.event_type,
      start_timestamp |-> trace.first,
      timestamp |-> Some(trace.last_sys),
      data |-> MapInsert(MapInsert(visitor.json_values,
                                   "busy", NumberValue(trace.busy)),
                         "idle", NumberValue(idle)),
      status |-> IF visitor.expections = <<>>
                 THEN Some("ok") ELSE Some("internal_error")]

\* The Transaction of lines 346-353.
transaction_of(S, id) ==
  [event_id |-> S[id].trace.trace_id,
   name |-> Some(S[id].md.name),
   start_timestamp |-> S[id].trace.first,
   timestamp |-> Some(S[id].trace.last_sys),
   spans |-> S[id].trace.spans]

\* attach_to looking at the immediate parent only, as Trace::new does.
attach_to_ImmediateParent(S, id) ==
  IF S[id].parent # 0 /\ S[S[id].parent].trace # NoTrace
  THEN Some(S[id].parent) ELSE None

\* The ancestors on_close's loop over span.parents() stops at: the nearest
\* one that owns a Trace (a sequence of length at most one).
attach_to(S, id) ==
  LET tracked == WithTrace(S, Parents(S, id))
  IN IF tracked = <<>> THEN None ELSE Some(Head(tracked))

\* The buffers of the spans of seq each extended by kids and then mine.
RECURSIVE AppendToAll(_, _, _, _)
AppendToAll(S, seq, kids, mine) ==
  IF seq = <<>> THEN S
  ELSE AppendToAll([S EXCEPT ![Head(seq)].trace.spans = (@ \o kids) \o <<mine>>],
                   Tail(seq), kids, mine)

\* SpanLayer_on_close without the return of line 338: the loop goes on and
\* appends to every ancestor that owns a Trace.
SpanLayer_on_close_EveryAncestor(S, id, t) ==
  IF S[id].trace = NoTrace THEN S
  ELSE
    LET data == span_data_of(S, id, t)
        to == attach_to(S, id)
        taken == [S EXCEPT ![id].trace.visitor = FieldVisitorResult_default,
                           ![id].trace.spans = <<>>,
                           ![id].span_data = Some(data)]
    IN IF to = None THEN taken
       ELSE LET p == to[1]
                mine == [data EXCEPT !.parent_span_id =
                           Some(UuidSimpleString(S[p].trace.span_id))]
            IN [AppendToAll(taken, WithTrace(S, Parents(S, id)),
                            S[id].trace.spans, mine)
                  EXCEPT ![id].span_data = Some(mine)]

\* SpanLayer_on_close pushing span_data before extending with the span's
\* own children (lines 334 and 337 swapped).
SpanLayer_on_close_SelfFirst(S, id, t) ==
  IF S[id].trace = NoTrace THEN S
  ELSE
    LET data == span_data_of(S, id, t)
        to == attach_to(S, id)
        taken == [S EXCEPT ![id].trace.visitor = FieldVisitorResult_default,
                           ![id].trace.spans = <<>>,
                           ![id].span_data = Some(data)]
    IN IF to = None THEN taken
       ELSE LET p == to[1]
                mine == [data EXCEPT !.parent_span_id =
                           Some(UuidSimpleString(S[p].trace.span_id))]
            IN [taken EXCEPT
                  ![p].trace.spans = (@ \o <<mine>>) \o S[id].trace.spans,
                  ![id].span_data = Some(mine)]

\* SpanLayer_on_close with the span's record put in front of the ancestor's
\* spans instead of behind them.
SpanLayer_on_close_Prepend(S, id, t) ==
  IF S[id].trace = NoTrace THEN S
  ELSE
    LET data == span_data_of(S, id, t)
        to == attach_to(S, id)
        taken == [S EXCEPT ![id].trace.visitor = FieldVisitorResult_default,
                           ![id].trace.spans = <<>>,
                           ![id].span_data = Some(data)]
    IN IF to = None THEN taken
       ELSE LET p == to[1]
                mine == [data EXCEPT !.parent_span_id =
                           Some(UuidSimpleString(S[p].trace.span_id))]
            IN [taken EXCEPT
                  ![p].trace.spans = (<<mine>> \o S[id].trace.spans) \o @,
                  ![id].span_data = Some(mine)]

\* SpanLayer::on_close on the registry: the Trace's visitor and spans are
\* swapped out; with a tracked ancestor the spans and then the span's own
\* record are appended to that ancestor's spans.
SpanLayer_on_close(S, id, t) ==
  IF S[id].trace = NoTrace THEN S
  ELSE
    LET data == span_data_of(S, id, t)
        to == attach_to(S, id)
        taken == [S EXCEPT ![id].trace.visitor = FieldVisitorResult_default,
                           ![id].trace.spans = <<>>,
                           ![id].span_data = Some(data)]
    IN IF to = None THEN taken
       ELSE LET p == to[1]
                mine == [data EXCEPT !.parent_span_id =
                           Some(UuidSimpleString(S[p].trace.span_id))]
            IN [taken EXCEPT
                  ![p].trace.spans = (@ \o S[id].trace.spans) \o <<mine>>,
                  ![id].span_data = Some(mine)]

\* SpanLayer_on_close_transaction without the return at line 338: a
\* transaction is offered for every span that owns a Trace.
SpanLayer_on_close_transaction_NoReturn(S, id) ==
  IF S[id].trace # NoTrace
  THEN Some(transaction_of(S, id))
  ELSE None

\* The transaction SpanLayer::on_close offers to Hub::with_active (Option):
\* only for a span with a Trace and no tracked ancestor.
SpanLayer_on_close_transaction(S, id) ==
  IF S[id].trace # NoTrace /\ attach_to(S, id) = None
  THEN Some(transaction_of(S, id))
  ELSE None

\* --------------------------------------------------------- event conversion

convert_tracing_level(level) ==
  CASE level = "ERROR" -> "Error"
    [] level = "WARN" -> "Warning"
    [] level = "INFO" -> "Info"
    [] level \in {"DEBUG", "TRACE"} -> "Debug"

\* breadcrumb_from_event.
breadcrumb_from_event(md, attrs, etf) ==
  LET visitor_result == RecordAll(etf, FieldVisitorResult_default, attrs)
  IN [ty |-> "log",
      level |-> convert_tracing_level(md.level),
      category |-> Some(md.target),
      message |-> visitor_result.event_type,
      data |-> visitor_result.json_values]

\* event_parent looking at the current span first.
event_parent_CurrentFirst(explicit, current) ==
  IF current # 0 THEN current ELSE explicit

\* The span lines 236-239 resolve the event to: the explicit parent when the
\* event names one, else the current span of the emitting thread (0: none).
event_parent(explicit, current) ==
  IF explicit # 0 THEN explicit ELSE current

\* convert_tracing_event with the synthesized exception record always
\* present, behind the extracted ones.
convert_tracing_event_AlwaysSynthesized(S, md, attrs, explicit, current, attach_stacktraces, etf) ==
  LET visitor_result == RecordAll(etf, FieldVisitorResult_default, attrs)
      parent == event_parent(explicit, current)
      in_trace == parent # 0 /\ S[parent].trace # NoTrace
      ancestors == IF parent = 0 THEN <<>> ELSE Parents(S, parent)
  IN [logger |-> Some("sentry-tracing"),
      level |-> convert_tracing_level(md.level),
      message |-> visitor_result.event_type,
      exception |->
        Append(visitor_result.expections,
               [ty |-> md.name,
                value |-> visitor_result.event_type,
                stacktrace |-> attach_stacktraces,
                module |-> Some(md.target)]),
      extra |-> visitor_result.json_values,
      trace_context |->
        IF in_trace
        THEN Some([span_id |-> S[parent].trace.span_id,
                   trace_id |-> S[parent].trace.trace_id])
        ELSE None,
      transaction |->
        IF in_trace /\ ancestors # <<>>
        THEN Some(S[ancestors[Len(ancestors)]].md.name)
        ELSE None]

\* convert_tracing_event. trace.span.span_id and trace.span.trace_id of
\* lines 245-246 are read as the span_id and trace_id of the Trace.
convert_tracing_event(S, md, attrs, explicit, current, attach_stacktraces, etf) ==
  LET visitor_result == RecordAll(etf, FieldVisitorResult_default, attrs)
      parent == event_parent(explicit, current)
      exception ==
        IF visitor_result.expections # <<>> THEN visitor_result.expections
        ELSE <<[ty |-> md.name,
                value |-> visitor_result.event_type,
                stacktrace |-> attach_stacktraces,
                module |-> Some(md.target)]>>
      in_trace == parent # 0 /\ S[parent].trace # NoTrace
      ancestors == IF parent = 0 THEN <<>> ELSE Parents(S, parent)
  IN [logger |-> Some("sentry-tracing"),
      level |-> convert_tracing_level(md.level),
      message |-> visitor_result.event_type,
      exception |-> exception,
      extra |-> visitor_result.json_values,
      trace_context |->
        IF in_trace
        THEN Some([span_id |-> S[parent].trace.span_id,
                   trace_id |-> S[parent].trace.trace_id])
        ELSE None,
      transaction |->
        IF in_trace /\ ancestors # <<>>
        THEN Some(S[ancestors[Len(ancestors)]].md.name)
        ELSE None]

\* ------------------------------------------------------------------ fan-out

\* is_layer_enabled: the sub-handler's filter on the span's metadata, false
\* for an id the registry does not know.
is_layer_enabled(S, layer, id) ==
  IF S[id].state = "open" THEN FilterEnabled(layer, S[id].md) ELSE FALSE

\* forwarded_for_span without the is_layer_enabled tests: every hook goes to
\* the three sub-handlers.
forwarded_for_span_All(S, id) == Layers

\* The sub-handlers a span hook is forwarded to (lines 117-206: one
\* is_layer_enabled test per sub-handler).
forwarded_for_span(S, id) == {l \in Layers : is_layer_enabled(S, l, id)}

\* forwarded_for_event gated by the combined enabled instead of by each
\* sub-handler's own filter.
forwarded_for_event_Combined(md) ==
  IF FilterEnabled("span", md) \/ FilterEnabled("event", md)
       \/ FilterEnabled("breadcrumb", md)
  THEN Layers ELSE {}

\* The sub-handlers on_event is forwarded to (lines 160-170).
forwarded_for_event(md) == {l \in Layers : FilterEnabled(l, md)}

\* register_callsite answering always only when all three do.
register_callsite_AllAlways(md) ==
  LET span == FilterInterest("span", md)
      event == FilterInterest("event", md)
      breadcrumb == FilterInterest("breadcrumb", md)
  IN IF span = "always" /\ event = "always" /\ breadcrumb = "always"
     THEN "always"
     ELSE IF span = "never" /\ event = "never" /\ breadcrumb = "never"
          THEN "never"
          ELSE "sometimes"

\* SentryLayer::register_callsite.
register_callsite(md) ==
  LET span == FilterInterest("span", md)
      event == FilterInterest("event", md)
      breadcrumb == FilterInterest("breadcrumb", md)
  IN IF span = "always" \/ event = "always" \/ breadcrumb = "always"
     THEN "always"
     ELSE IF span = "never" /\ event = "never" /\ breadcrumb = "never"
          THEN "never"
          ELSE "sometimes"

\* SentryLayer_enabled as the conjunction of the three filters.
SentryLayer_enabled_All(md) ==
  FilterEnabled("span", md) /\ FilterEnabled("event", md)
    /\ FilterEnabled("breadcrumb", md)

\* SentryLayer::enabled.
SentryLayer_enabled(md) ==
  FilterEnabled("span", md) \/ FilterEnabled("event", md)
    \/ FilterEnabled("breadcrumb", md)

Hook(hook, md, forwarded, result) ==
  [hook |-> hook, md |-> md, forwarded |-> forwarded, result |-> result]

OpenIds == {i \in SpanIds : spans[i].state = "open"}

\* The id the registry hands out next: the lowest one not yet used.
FreshId(id) ==
  /\ spans[id].state = "none"
  /\ \A j \in SpanIds : j < id => spans[j].state # "none"

\* ------------------------------------------------------------------ actions

\* The front-end asks for the interest in a callsite.
RegisterCallsite(md) ==
  /\ last_hook' = Hook("register_callsite", md, Layers, register_callsite(md))
  /\ UNCHANGED <<options, spans, next_uuid, now, hub_active, sent, last_issue,
                 last_breadcrumb,
                 last_event, diagnostics, threads>>

\* The front-end asks whether a callsite is enabled.
Enabled(md) ==
  /\ last_hook' = Hook("enabled", md, Layers,
                       IF SentryLayer_enabled(md) THEN "true" ELSE "false")
  /\ UNCHANGED <<options, spans, next_uuid, now, hub_active, sent, last_issue,
                 last_breadcrumb,
                 last_event, diagnostics, threads>>

\* A span of an enabled callsite is created under parent (0: none): the
\* registry stores it, then SentryLayer::new_span runs.
NewSpan(id, parent, md, attrs) ==
  /\ FreshId(id)
  /\ parent \in OpenIds \cup {0}
  /\ SentryLayer_enabled(md)
  /\ LET stored == [spans EXCEPT ![id] =
                      [NoSpan EXCEPT !.state = "open", !.parent = parent,
                                     !.md = md, !.attrs = attrs,
                                     !.clock.created = now]]
         fwd == forwarded_for_span(stored, id)
     IN /\ spans' = IF "span" \in fwd
                    THEN SpanLayer_new_span(stored, id, attrs,
                                            options.event_type_field, now,
                                            next_uuid)
                    ELSE stored
        /\ next_uuid' = IF "span" \in fwd
                        THEN next_uuid + Trace_new_uuids(stored, id)
                        ELSE next_uuid
        /\ last_hook' = Hook("new_span", md, fwd, "none")
  /\ UNCHANGED <<options, now, hub_active, sent, last_issue, last_breadcrumb,
                 last_event, diagnostics, threads>>

\* SpanLayer_on_record visiting the recorded values into the Trace, as
\* new_span does with the creation attributes.
SpanLayer_on_record_Visits(S, id, values, etf) ==
  IF S[id].trace = NoTrace THEN S
  ELSE [S EXCEPT ![id].trace.visitor = RecordAll(etf, @, values)]

\* SpanLayer::on_record: impl Layer for SpanLayer does not override it, so
\* the trait's default runs, which does nothing.
SpanLayer_on_record(S, id, values, etf) == S

\* SpanLayer::on_event: not overridden either.
SpanLayer_on_event(S, md, attrs, explicit, current) == S

\* Values are recorded on a span after its creation: SentryLayer::on_record.
OnRecord(id, values) ==
  /\ id \in OpenIds
  /\ spans' = IF "span" \in forwarded_for_span(spans, id)
              THEN SpanLayer_on_record(spans, id, values,
                                       options.event_type_field)
              ELSE spans
  /\ last_hook' = Hook("on_record", spans[id].md,
                       forwarded_for_span(spans, id), "none")
  /\ UNCHANGED <<options, next_uuid, now, hub_active, sent, last_issue,
                 last_breadcrumb,
                 last_event, diagnostics, threads>>

\* SentryLayer::on_enter.
Enter(id) ==
  /\ id \in OpenIds
  /\ ~spans[id].entered
  /\ LET fwd == forwarded_for_span(spans, id)
         after == IF "span" \in fwd
                  THEN SpanLayer_on_enter(spans, id, now) ELSE spans
     IN /\ spans' = [after EXCEPT ![id].entered = TRUE,
                                  ![id].clock.entered = now]
        /\ last_hook' = Hook("on_enter", spans[id].md, fwd, "none")
  /\ UNCHANGED <<options, next_uuid, now, hub_active, sent, last_issue,
                 last_breadcrumb,
                 last_event, diagnostics, threads>>

\* SentryLayer::on_exit.
Exit(id) ==
  /\ id \in OpenIds
  /\ spans[id].entered
  /\ LET fwd == forwarded_for_span(spans, id)
         after == IF "span" \in fwd
                  THEN SpanLayer_on_exit(spans, id, now) ELSE spans
     IN /\ spans' = [after EXCEPT ![id].entered = FALSE,
                                  ![id].clock.inside =
                                    @ + (now - spans[id].clock.entered)]
        /\ last_hook' = Hook("on_exit", spans[id].md, fwd, "none")
  /\ UNCHANGED <<options, next_uuid, now, hub_active, sent, last_issue,
                 last_breadcrumb,
                 last_event, diagnostics, threads>>

NumClosed == Cardinality({i \in SpanIds : spans[i].state = "closed"})

\* The last reference to a span is dropped: SentryLayer::on_close runs, then
\* the registry removes the span with its extensions. A span holds a
\* reference to its parent, so no child is still open. Without a client
\* Hub::with_active skips the closure of lines 344-357 and returns; nothing
\* is written anywhere on that path.
Close(id) ==
  /\ id \in OpenIds
  /\ ~spans[id].entered
  /\ \A c \in OpenIds : spans[c].parent # id
  /\ LET fwd == forwarded_for_span(spans, id)
         after == IF "span" \in fwd
                  THEN SpanLayer_on_close(spans, id, now) ELSE spans
         tx == IF "span" \in fwd
               THEN SpanLayer_on_close_transaction(spans, id) ELSE None
     IN /\ spans' = [after EXCEPT ![id].state = "closed",
                                  ![id].trace = NoTrace,
                                  ![id].closed_at = NumClosed + 1,
                                  ![id].clock.closed = now]
        /\ sent' = IF tx # None /\ hub_active THEN Append(sent, tx[1]) ELSE sent
        /\ last_hook' = Hook("on_close", spans[id].md, fwd, "none")
  /\ UNCHANGED <<options, next_uuid, now, hub_active, last_issue,
                 last_breadcrumb,
                 last_event, diagnostics, threads>>

\* An event of an enabled callsite is emitted with an explicit parent (0:
\* none given) on a thread whose current span is current (0: none):
\* SentryLayer::on_event. capture_event and add_breadcrumb reach the sink
\* only through Hub::with_active.
OnEvent(md, attrs, explicit, current) ==
  /\ explicit \in OpenIds \cup {0}
  /\ current = 0 \/ (current \in OpenIds /\ spans[current].entered)
  /\ SentryLayer_enabled(md)
  /\ LET fwd == forwarded_for_event(md)
     IN /\ last_issue' =
             IF "event" \in fwd /\ hub_active
             THEN Some(convert_tracing_event(spans, md, attrs, explicit,
                                             current,
                                             options.attach_stacktraces,
                                             options.event_type_field))
             ELSE last_issue
        /\ last_breadcrumb' =
             IF "breadcrumb" \in fwd /\ hub_active
             THEN Some(breadcrumb_from_event(md, attrs,
                                             options.event_type_field))
             ELSE last_breadcrumb
        /\ last_hook' = Hook("on_event", md, fwd, "none")
        /\ last_event' = [md |-> md, attrs |-> attrs, explicit |-> explicit,
                          current |-> current]
        /\ spans' = IF "span" \in fwd
                    THEN SpanLayer_on_event(spans, md, attrs, explicit,
                                            current)
                    ELSE spans
  /\ UNCHANGED <<options, next_uuid, now, hub_active, sent,
                 diagnostics, threads>>

\* The monotonic clock advances.
Tick ==
  /\ now < MaxTime
  /\ now' = now + 1
  /\ UNCHANGED <<options, spans, next_uuid, hub_active, sent, last_issue,
                 last_breadcrumb, last_hook,
                 last_event, diagnostics, threads>>

\* A client is bound to, or unbound from, the current hub.
BindClient ==
  /\ hub_active' = ~hub_active
  /\ UNCHANGED <<options, spans, next_uuid, now, sent, last_issue,
                 last_breadcrumb, last_hook,
                 last_event, diagnostics, threads>>

\* ----------------------------------------------- on_close, statement by
\* statement, on several threads

\* The threads holding the write lock of a span's extensions.
LockHolders(i) == {t \in Threads : i \in threads[t].held}

LockFree(i) == LockHolders(i) = {}

\* Some thread is inside on_close for the span.
Closing(i) == \E t \in Threads : threads[t].id = i

\* release_parent leaving the guard of a skipped ancestor alive.
release_parent_Kept(held, p) == held

\* The end of one iteration of the loop over span.parents() (line 340): the
\* guard on the ancestor's extensions is dropped.
release_parent(held, p) == held \ {p}

\* LoopParent walking span.scope(), which starts at the span itself, in
\* place of span.parents().
LoopParent_FromSelf(t) ==
  (<<threads[t].id>> \o Parents(spans, threads[t].id))[threads[t].k]

\* The ancestor the loop of a thread is at.
LoopParent(t) == Parents(spans, threads[t].id)[threads[t].k]

\* SentryLayer::on_close finds the span sub-handler enabled and
\* SpanLayer::on_close locks the span's extensions (lines 278-279).
CloseBegin(t, id) ==
  /\ threads[t].pc = "idle"
  /\ id \in OpenIds
  /\ ~spans[id].entered
  /\ \A c \in OpenIds : spans[c].parent # id
  /\ ~Closing(id)
  /\ is_layer_enabled(spans, "span", id)
  /\ LockFree(id)
  /\ threads' = [threads EXCEPT ![t] =
                   [IdleThread EXCEPT !.pc = "locked", !.id = id,
                                      !.held = {id}]]
  /\ last_hook' = Hook("on_close", spans[id].md,
                       forwarded_for_span(spans, id), "none")
  /\ UNCHANGED <<options, spans, next_uuid, now, hub_active, sent, last_issue,
                 last_breadcrumb, last_event, diagnostics>>

\* Lines 281-327: return when there is no Trace; else swap the visitor and
\* the spans out of the Trace and build span_data.
CloseTake(t) ==
  /\ threads[t].pc = "locked"
  /\ LET id == threads[t].id
     IN IF spans[id].trace = NoTrace
        THEN /\ threads' = [threads EXCEPT ![t].pc = "return"]
             /\ UNCHANGED spans
        ELSE /\ threads' = [threads EXCEPT
                              ![t].pc = "walk",
                              ![t].k = 1,
                              ![t].data = Some(span_data_of(spans, id, now)),
                              ![t].kids = spans[id].trace.spans]
             /\ spans' = [spans EXCEPT
                            ![id].trace.visitor = FieldVisitorResult_default,
                            ![id].trace.spans = <<>>]
  /\ UNCHANGED <<options, next_uuid, now, hub_active, sent, last_issue,
                 last_breadcrumb, last_hook, last_event, diagnostics>>

\* Line 332: the next ancestor's extensions are locked.
CloseLockParent(t) ==
  /\ threads[t].pc = "walk"
  /\ threads[t].k <= Len(Parents(spans, threads[t].id))
  /\ LockFree(LoopParent(t))
  /\ threads' = [threads EXCEPT ![t].pc = "parent",
                                ![t].held = @ \cup {LoopParent(t)}]
  /\ UNCHANGED <<options, spans, next_uuid, now, hub_active, sent, last_issue,
                 last_breadcrumb, last_hook, last_event, diagnostics>>

\* Lines 333-338: the ancestor has a Trace; the spans and span_data are
\* appended to it and on_close returns.
CloseAttach(t) ==
  /\ threads[t].pc = "parent"
  /\ spans[LoopParent(t)].trace # NoTrace
  /\ LET p == LoopParent(t)
         mine == [threads[t].data[1] EXCEPT !.parent_span_id =
                    Some(UuidSimpleString(spans[p].trace.span_id))]
     IN /\ spans' = [spans EXCEPT
                       ![p].trace.spans = (@ \o threads[t].kids) \o <<mine>>]
        /\ threads' = [threads EXCEPT ![t].pc = "return",
                                      ![t].data = Some(mine),
                                      ![t].kids = <<>>]
  /\ UNCHANGED <<options, next_uuid, now, hub_active, sent, last_issue,
                 last_breadcrumb, last_hook, last_event, diagnostics>>

\* Lines 333, 339-340: the ancestor has no Trace; its guard is dropped and
\* the loop goes on.
CloseSkip(t) ==
  /\ threads[t].pc = "parent"
  /\ spans[LoopParent(t)].trace = NoTrace
  /\ threads' = [threads EXCEPT
                   ![t].pc = "walk",
                   ![t].k = @ + 1,
                   ![t].held = release_parent(@, LoopParent(t))]
  /\ UNCHANGED <<options, spans, next_uuid, now, hub_active, sent, last_issue,
                 last_breadcrumb, last_hook, last_event, diagnostics>>

\* Line 344: the loop is over and Hub::with_active is called.
CloseCallSink(t) ==
  /\ threads[t].pc = "walk"
  /\ threads[t].k > Len(Parents(spans, threads[t].id))
  /\ threads' = [threads EXCEPT ![t].pc = "sink"]
  /\ UNCHANGED <<options, spans, next_uuid, now, hub_active, sent, last_issue,
                 last_breadcrumb, last_hook, last_event, diagnostics>>

\* Lines 345-357: with a client the transaction is sent; Hub::with_active
\* returns.
CloseSinkReturn(t) ==
  /\ threads[t].pc = "sink"
  /\ sent' = IF hub_active
             THEN Append(sent, [transaction_of(spans, threads[t].id) EXCEPT
                                  !.spans = threads[t].kids])
             ELSE sent
  /\ threads' = [threads EXCEPT ![t].pc = "return", ![t].kids = <<>>]
  /\ UNCHANGED <<options, spans, next_uuid, now, hub_active, last_issue,
                 last_breadcrumb, last_hook, last_event, diagnostics>>

\* on_close returns: every guard is dropped, and the registry removes the
\* span with its extensions.
CloseReturn(t) ==
  /\ threads[t].pc = "return"
  /\ LET id == threads[t].id
     IN spans' = [spans EXCEPT ![id].state = "closed",
                               ![id].trace = NoTrace,
                               ![id].span_data = threads[t].data,
                               ![id].closed_at = NumClosed + 1,
                               ![id].clock.closed = now]
  /\ threads' = [threads EXCEPT ![t] = IdleThread]
  /\ UNCHANGED <<options, next_uuid, now, hub_active, sent, last_issue,
                 last_breadcrumb, last_hook, last_event, diagnostics>>

\* ----------------------------------------------- new_span, statement by
\* statement, on several threads

\* The registry stores the span, SentryLayer::new_span finds the span
\* sub-handler enabled and SpanLayer::new_span locks the extensions of the
\* new span (lines 233-234). No other thread knows the span before new_span
\* returns, and nobody creates a span under one that is being closed.
NewSpanBegin(t, id, parent, md, attrs) ==
  /\ threads[t].pc = "idle"
  /\ FreshId(id)
  /\ parent \in OpenIds \cup {0}
  /\ parent # 0 => ~Closing(parent)
  /\ SentryLayer_enabled(md)
  /\ LET stored == [spans EXCEPT ![id] =
                      [NoSpan EXCEPT !.state = "open", !.parent = parent,
                                     !.md = md, !.attrs = attrs,
                                     !.clock.created = now]]
     IN /\ "span" \in forwarded_for_span(stored, id)
        /\ spans' = stored
        /\ last_hook' = Hook("new_span", md, forwarded_for_span(stored, id),
                             "none")
  /\ threads' = [threads EXCEPT ![t] =
                   [IdleThread EXCEPT !.pc = "created", !.id = id,
                                      !.held = {id}]]
  /\ UNCHANGED <<options, next_uuid, now, hub_active, sent, last_issue,
                 last_breadcrumb, last_event, diagnostics>>

\* Lines 237-251: Trace::new takes the lock of the parent's extensions for
\* the time of reading its Trace (lines 439-441), the attributes are
\* recorded, the Trace is inserted and new_span returns, dropping the guard.
NewSpanInsert(t) ==
  /\ threads[t].pc = "created"
  /\ LET id == threads[t].id
     IN /\ spans[id].parent # 0 => LockFree(spans[id].parent)
        /\ spans' = SpanLayer_new_span(spans, id, spans[id].attrs,
                                       options.event_type_field, now,
                                       next_uuid)
        /\ next_uuid' = next_uuid + Trace_new_uuids(spans, id)
  /\ threads' = [threads EXCEPT ![t] = IdleThread]
  /\ UNCHANGED <<options, now, hub_active, sent, last_issue,
                 last_breadcrumb, last_hook, last_event, diagnostics>>

\* The step a thread inside a callback takes next.
ThreadStep(t) ==
  \/ NewSpanInsert(t)
  \/ CloseTake(t)
  \/ CloseLockParent(t)
  \/ CloseAttach(t)
  \/ CloseSkip(t)
  \/ CloseCallSink(t)
  \/ CloseSinkReturn(t)
  \/ CloseReturn(t)

\* ------------------------------------------------------------------- inputs

KAttr == Attr("k", "i64", 1, FALSE, "", <<>>)

KindAttr == Attr("kind", "str", 0, FALSE, "db", <<>>)

ErrAttr == Attr("err", "error", 0, FALSE, "", <<[ty |-> "Io", msg |-> "boom"]>>)

\* Attributes of the events of the aggregation runs.
EventAttrs == {<<ErrAttr>>}

\* Span callsites of the aggregation runs: one the span filter admits, one it
\* rejects while the event filter keeps the callsite enabled.
AdmittedSpan == Md("a", "app", "INFO", Filt("always", "never", "sometimes_on"))

RejectedSpan == Md("f", "app", "DEBUG", Filt("never", "always", "never"))

SpanMetadata == {AdmittedSpan, RejectedSpan}

\* The spans of the aggregation runs: callsite and creation attributes.
SpanInputs ==
  {[md |-> AdmittedSpan, attrs |-> <<KindAttr, KAttr>>],
   [md |-> AdmittedSpan, attrs |-> <<ErrAttr>>],
   [md |-> RejectedSpan, attrs |-> <<KAttr>>]}

\* Event callsites of the aggregation runs.
EventMetadata == {Md("e", "app", "ERROR", Filt("never", "always", "never"))}

\* Every answer the three filters can give for one callsite.
AllMetadata == {Md("m", "app", "WARN", f) : f \in [Layers -> Verdicts]}

DefaultOptions == [event_type_field |-> None, attach_stacktraces |-> TRUE]

\* The options of the conversion runs: with and without a promoted field,
\* with and without stack traces.
ConvOptions ==
  {[event_type_field |-> etf, attach_stacktraces |-> st] :
     etf \in {None, Some("kind")}, st \in BOOLEAN}

LogTargetAttr == Attr("log.target", "str", 0, FALSE, "db", <<>>)

\* An error with one source, in a field named like the promoted one.
KindErrAttr ==
  Attr("kind", "error", 0, FALSE, "",
       <<[ty |-> "Outer", msg |-> "failed"], [ty |-> "Io", msg |-> "boom"]>>)

KindNumAttr == Attr("kind", "i64", -7, FALSE, "", <<>>)

FlagAttr == Attr("flag", "bool", 0, TRUE, "", <<>>)

DebugAttr == Attr("dbg", "debug", 0, FALSE, "Point { x: 1 }", <<>>)

ConvAttrPool ==
  {KAttr, KindAttr, ErrAttr, LogTargetAttr, KindErrAttr, KindNumAttr,
   FlagAttr, DebugAttr}

\* The attribute lists over a pool: up to MaxAttrs fields with distinct
\* names, as the fields of one callsite are.
AttrLists(pool) ==
  UNION {{attrs \in [1..n -> pool] :
            \A i, j \in 1..n : i # j => attrs[i].name # attrs[j].name} :
         n \in 0..MaxAttrs}

\* The creation attributes of the spans of the conversion runs.
ConvAttrs == AttrLists(ConvAttrPool)

\* The attributes of the events of the conversion runs.
ConvEventAttrs ==
  AttrLists({KAttr, KindAttr, ErrAttr, LogTargetAttr, KindErrAttr, KindNumAttr})

\* Event callsites of the conversion runs, admitted by the event and the
\* breadcrumb filter.
ConvEventMetadata ==
  {Md("e", "app", "ERROR", Filt("never", "always", "always")),
   Md("q", "net", "DEBUG", Filt("never", "sometimes_on", "always"))}

\* ------------------------------------------------------------ specification

Init ==
  /\ options = [DefaultOptions EXCEPT !.event_type_field = Some("kind")]
  /\ spans = [i \in SpanIds |-> NoSpan]
  /\ next_uuid = 1
  /\ now = 0
  /\ hub_active = TRUE
  /\ sent = <<>>
  /\ last_issue = None
  /\ last_breadcrumb = None
  /\ last_hook = Hook("none", NoMetadata, {}, "none")
  /\ threads = [t \in Threads |-> IdleThread]
  /\ last_event = NoEvent
  /\ diagnostics = <<>>

NewSpanStep ==
  \E id \in SpanIds, parent \in SpanIds \cup {0}, input \in SpanInputs :
    NewSpan(id, parent, input.md, input.attrs)

EnterStep == \E id \in SpanIds : Enter(id)

ExitStep == \E id \in SpanIds : Exit(id)

CloseStep == \E id \in SpanIds : Close(id)

OnEventStep ==
  \E md \in EventMetadata, attrs \in EventAttrs, parent \in SpanIds \cup {0} :
    OnEvent(md, attrs, parent, 0)

\* Span trees: creation, enter, exit and close in any interleaving, with a
\* client bound to the hub throughout.
Next ==
  \/ NewSpanStep
  \/ EnterStep
  \/ ExitStep
  \/ CloseStep

Spec == Init /\ [][Next]_vars

\* Span trees while a client is bound to and unbound from the hub.
HubInputs ==
  {[md |-> AdmittedSpan, attrs |-> <<KAttr>>],
   [md |-> RejectedSpan, attrs |-> <<KAttr>>]}

NewSpanHubStep ==
  \E id \in SpanIds, parent \in SpanIds \cup {0}, input \in HubInputs :
    NewSpan(id, parent, input.md, input.attrs)

NextHub ==
  \/ NewSpanHubStep
  \/ EnterStep
  \/ ExitStep
  \/ CloseStep
  \/ BindClient

SpecHub == Init /\ [][NextHub]_vars

\* Span trees with events emitted inside the spans.
EventInputs ==
  {[md |-> AdmittedSpan, attrs |-> <<KindAttr, KAttr>>],
   [md |-> AdmittedSpan, attrs |-> <<ErrAttr>>]}

NewSpanEventStep ==
  \E id \in SpanIds, parent \in SpanIds \cup {0}, input \in EventInputs :
    NewSpan(id, parent, input.md, input.attrs)

NextEvent ==
  \/ NewSpanEventStep
  \/ CloseStep
  \/ OnEventStep

SpecEvent == Init /\ [][NextEvent]_vars

\* Events emitted inside span trees, with an explicit parent or inside the
\* current span.
OtherSpan == Md("b", "app", "INFO", Filt("always", "never", "never"))

CtxInputs ==
  {[md |-> AdmittedSpan, attrs |-> <<KAttr>>],
   [md |-> OtherSpan, attrs |-> <<KAttr>>],
   [md |-> RejectedSpan, attrs |-> <<KAttr>>]}

NewSpanCtxStep ==
  \E id \in 1..MaxCtxSpans, parent \in SpanIds \cup {0}, input \in CtxInputs :
    NewSpan(id, parent, input.md, input.attrs)

OnEventCtxStep ==
  \E md \in EventMetadata, explicit \in SpanIds \cup {0},
     current \in SpanIds \cup {0} :
    OnEvent(md, <<KAttr>>, explicit, current)

NextCtx ==
  \/ NewSpanCtxStep
  \/ EnterStep
  \/ ExitStep
  \/ CloseStep
  \/ OnEventCtxStep

SpecCtx == Init /\ [][NextCtx]_vars

\* Closes running statement by statement on several threads, next to span
\* creations and to closes of spans the span filter excludes. Trace::new
\* reads the extensions of the parent (line 439) and waits for its lock.
NewSpanLockStep ==
  \E id \in SpanIds, parent \in SpanIds \cup {0}, input \in HubInputs :
    /\ parent # 0 => LockFree(parent)
    /\ NewSpan(id, parent, input.md, input.attrs)

CloseExcludedStep ==
  \E id \in SpanIds :
    /\ ~is_layer_enabled(spans, "span", id)
    /\ ~Closing(id)
    /\ Close(id)

NextLock ==
  \/ NewSpanLockStep
  \/ CloseExcludedStep
  \/ \E t \in Threads, id \in SpanIds : CloseBegin(t, id)
  \/ \E t \in Threads : CloseTake(t)
  \/ \E t \in Threads : CloseLockParent(t)
  \/ \E t \in Threads : CloseAttach(t)
  \/ \E t \in Threads : CloseSkip(t)
  \/ \E t \in Threads : CloseCallSink(t)
  \/ \E t \in Threads : CloseSinkReturn(t)
  \/ \E t \in Threads : CloseReturn(t)

SpecLock == Init /\ [][NextLock]_vars

\* new_span and on_close both running statement by statement on several
\* threads, next to creations and closes of spans the span filter excludes.
\* The spans are those of one tree: the first span is its root.
\* A thread inside a callback is scheduled again and again until it returns.
\* The threads are interchangeable: a callback starts on the first idle one.
FirstIdle(t) ==
  /\ threads[t].pc = "idle"
  /\ \A u \in Threads : u < t => threads[u].pc # "idle"

NewSpanBeginStep ==
  \E t \in Threads, id \in SpanIds, parent \in SpanIds \cup {0},
     input \in HubInputs :
    /\ FirstIdle(t)
    /\ (parent = 0) = (id = 1)
    /\ NewSpanBegin(t, id, parent, input.md, input.attrs)

CloseBeginStep ==
  \E t \in Threads, id \in SpanIds : FirstIdle(t) /\ CloseBegin(t, id)

NewSpanExcludedStep ==
  \E id \in SpanIds, parent \in SpanIds \cup {0}, input \in HubInputs :
    /\ ~FilterEnabled("span", input.md)
    /\ parent # 0 => ~Closing(parent)
    /\ (parent = 0) = (id = 1)
    /\ NewSpan(id, parent, input.md, input.attrs)

NextConc ==
  \/ NewSpanBeginStep
  \/ NewSpanExcludedStep
  \/ CloseExcludedStep
  \/ \E t \in Threads : NewSpanInsert(t)
  \/ CloseBeginStep
  \/ \E t \in Threads : CloseTake(t)
  \/ \E t \in Threads : CloseLockParent(t)
  \/ \E t \in Threads : CloseAttach(t)
  \/ \E t \in Threads : CloseSkip(t)
  \/ \E t \in Threads : CloseCallSink(t)
  \/ \E t \in Threads : CloseSinkReturn(t)
  \/ \E t \in Threads : CloseReturn(t)

SpecConc ==
  /\ Init
  /\ [][NextConc]_vars
  /\ \A t \in Threads : WF_vars(ThreadStep(t))

\* Event conversion over options and attribute lists, outside any span.
InitConv ==
  /\ options \in ConvOptions
  /\ spans = [i \in SpanIds |-> NoSpan]
  /\ next_uuid = 1
  /\ now = 0
  /\ hub_active = TRUE
  /\ sent = <<>>
  /\ last_issue = None
  /\ last_breadcrumb = None
  /\ last_hook = Hook("none", NoMetadata, {}, "none")
  /\ last_event = NoEvent
  /\ diagnostics = <<>>
  /\ threads = [t \in Threads |-> IdleThread]

OnEventConvStep ==
  \E md \in ConvEventMetadata, attrs \in ConvEventAttrs :
    OnEvent(md, attrs, 0, 0)

NextConv == OnEventConvStep

SpecConv == InitConv /\ [][NextConv]_vars

\* Field extraction over options and attribute lists, at the creation of
\* one span.
NewSpanRecordStep ==
  \E attrs \in ConvAttrs : NewSpan(1, 0, AdmittedSpan, attrs)

NextRecord == NewSpanRecordStep

SpecRecord == InitConv /\ [][NextRecord]_vars

\* The lifecycle hooks over every combination of admit / reject by the three
\* filters, on few spans.
StaticMetadata ==
  {md \in AllMetadata : \A l \in Layers : md.filt[l] \in {"always", "never"}}

RegisterCallsiteStep == \E md \in AllMetadata : RegisterCallsite(md)

EnabledStep == \E md \in AllMetadata : Enabled(md)

NewSpanFanStep ==
  \E id \in 1..MaxFanSpans, parent \in SpanIds \cup {0},
     md \in StaticMetadata :
    NewSpan(id, parent, md, <<KAttr>>)

OnRecordStep == \E id \in SpanIds : OnRecord(id, <<KAttr>>)

OnEventFanStep ==
  \E md \in StaticMetadata : OnEvent(md, <<KindAttr>>, 0, 0)

\* The two gates the front-end asks before any callback.
NextGate ==
  \/ RegisterCallsiteStep
  \/ EnabledStep

SpecGate == Init /\ [][NextGate]_vars

NextFan ==
  \/ NewSpanFanStep
  \/ OnRecordStep
  \/ EnterStep
  \/ ExitStep
  \/ CloseStep
  \/ OnEventFanStep

SpecFan == Init /\ [][NextFan]_vars

\* Span lifecycles with values recorded after creation and with events,
\* some of which the span filter admits too, emitted inside the spans.
NodeEvent == Md("e", "app", "ERROR", Filt("always", "always", "never"))

NewSpanNodeStep ==
  \E id \in 1..MaxFanSpans, parent \in SpanIds \cup {0}, input \in SpanInputs :
    NewSpan(id, parent, input.md, input.attrs)

OnRecordNodeStep == \E id \in SpanIds : OnRecord(id, <<ErrAttr>>)

OnEventNodeStep ==
  \E md \in EventMetadata \cup {NodeEvent},
     explicit \in SpanIds \cup {0}, current \in SpanIds \cup {0} :
    OnEvent(md, <<ErrAttr>>, explicit, current)

NextNode ==
  \/ NewSpanNodeStep
  \/ OnRecordNodeStep
  \/ EnterStep
  \/ ExitStep
  \/ CloseStep
  \/ OnEventNodeStep

SpecNode == Init /\ [][NextNode]_vars

\* Span lifecycles under a running clock.
NewSpanTimedStep ==
  \E id \in 1..MaxTimedSpans, parent \in SpanIds \cup {0},
     md \in SpanMetadata :
    NewSpan(id, parent, md, <<KAttr>>)

NextTimed ==
  \/ NewSpanTimedStep
  \/ EnterStep
  \/ ExitStep
  \/ CloseStep
  \/ Tick

SpecTimed == Init /\ [][NextTimed]_vars

\* Span lifecycles under a running clock, of spans some of which have
\* creation attributes named busy and idle.
BusyAttr == Attr("busy", "i64", 7, FALSE, "", <<>>)

IdleAttr == Attr("idle", "str", 0, FALSE, "never", <<>>)

NewSpanBusyStep ==
  \E id \in 1..MaxTimedSpans, parent \in SpanIds \cup {0},
     attrs \in {<<BusyAttr, IdleAttr>>, <<KAttr>>} :
    NewSpan(id, parent, AdmittedSpan, attrs)

NextBusy ==
  \/ NewSpanBusyStep
  \/ EnterStep
  \/ ExitStep
  \/ CloseStep
  \/ Tick

SpecBusy == Init /\ [][NextBusy]_vars

\* --------------------------------------------------------------- properties

\* A span that got a Trace at creation (a Span Node): it still owns it, or it
\* is closed and left the record on_close built.
Tracked(i) == spans[i].trace # NoTrace \/ spans[i].span_data # None

IsClosed(i) == spans[i].state = "closed"

SpanIdOf(i) ==
  IF spans[i].trace # NoTrace THEN spans[i].trace.span_id
  ELSE spans[i].span_data[1].span_id

TraceIdOf(i) ==
  IF spans[i].trace # NoTrace THEN spans[i].trace.trace_id
  ELSE spans[i].span_data[1].trace_id

RECURSIVE TrackedAmong(_)
TrackedAmong(seq) ==
  IF seq = <<>> THEN <<>>
  ELSE IF Tracked(Head(seq)) THEN <<Head(seq)>> \o TrackedAmong(Tail(seq))
       ELSE TrackedAmong(Tail(seq))

Ancestors(i) == {Parents(spans, i)[k] : k \in 1..Len(Parents(spans, i))}

\* The nearest ancestor with a Span Node, 0 when there is none.
NearestTracked(i) ==
  LET tracked == TrackedAmong(Parents(spans, i))
  IN IF tracked = <<>> THEN 0 ELSE Head(tracked)

\* A trace root: a tracked span with no tracked ancestor.
IsRoot(i) == Tracked(i) /\ NearestTracked(i) = 0

SummaryIds(list) == {list[k].span_id : k \in 1..Len(list)}

Pos(list, span_id) == CHOOSE k \in 1..Len(list) : list[k].span_id = span_id

\* The transactions the sink received with a given trace_id.
SentFor(trace_id) == {n \in 1..Len(sent) : sent[n].event_id = trace_id}

\* C1: an emitted root transaction holds exactly the non-root tracked spans
\* that share its trace_id, each once, and no span of another trace_id.
C1_TreeCompleteness ==
  \A n \in 1..Len(sent) :
    LET tx == sent[n]
        sharing == {i \in SpanIds :
                      Tracked(i) /\ ~IsRoot(i) /\ TraceIdOf(i) = tx.event_id}
    IN /\ SummaryIds(tx.spans) = {SpanIdOf(i) : i \in sharing}
       /\ Cardinality(SummaryIds(tx.spans)) = Len(tx.spans)
       /\ \A k \in 1..Len(tx.spans) : tx.spans[k].trace_id = tx.event_id

\* C2 as stated: every closed trace root has exactly one transaction at the
\* sink, every transaction is that of a closed trace root, and it holds
\* every tracked descendant of the root, all closed.
C2_ExactlyOncePerRoot ==
  /\ \A r \in SpanIds :
       IsClosed(r) /\ IsRoot(r) => Cardinality(SentFor(TraceIdOf(r))) = 1
  /\ \A n \in 1..Len(sent) :
       \E r \in SpanIds :
         /\ IsClosed(r) /\ IsRoot(r) /\ TraceIdOf(r) = sent[n].event_id
         /\ \A d \in SpanIds :
              Tracked(d) /\ r \in Ancestors(d) /\ NearestTracked(d) # 0 =>
                IsClosed(d) /\ SpanIdOf(d) \in SummaryIds(sent[n].spans)

\* C2 as amended, in every state: at most one transaction per closed trace
\* root, every transaction is that of a closed trace root and holds every
\* tracked descendant of it, all closed.
C2_AtMostOncePerRoot ==
  /\ \A r \in SpanIds :
       IsClosed(r) /\ IsRoot(r) => Cardinality(SentFor(TraceIdOf(r))) <= 1
  /\ \A n \in 1..Len(sent) :
       \E r \in SpanIds :
         /\ IsClosed(r) /\ IsRoot(r) /\ TraceIdOf(r) = sent[n].event_id
         /\ \A d \in SpanIds :
              Tracked(d) /\ r \in Ancestors(d) /\ NearestTracked(d) # 0 =>
                IsClosed(d) /\ SpanIdOf(d) \in SummaryIds(sent[n].spans)

\* C2 as amended, in every step: the close of a trace root sends its
\* transaction when a client is bound to the hub and nothing when none is;
\* no other step sends anything.
C2_SentOnRootClose ==
  IF \E r \in SpanIds :
       spans[r].state = "open" /\ spans'[r].state = "closed" /\ IsRoot(r)
       /\ hub_active
  THEN \E r \in SpanIds :
         /\ spans[r].state = "open" /\ spans'[r].state = "closed"
         /\ Len(sent') = Len(sent) + 1
         /\ SubSeq(sent', 1, Len(sent)) = sent
         /\ sent'[Len(sent')].event_id = TraceIdOf(r)
  ELSE sent' = sent

\* C2 (amended): a trace root gets at most one transaction, exactly one when
\* a client is bound to the hub as it closes and none otherwise; never one
\* for a span with a tracked ancestor; only after every tracked descendant
\* has closed and been merged.
C2_OncePerRootWhenHubActive ==
  []C2_AtMostOncePerRoot /\ [][C2_SentOnRootClose]_vars

C2_Witness ==
  /\ \E r \in SpanIds :
       /\ IsClosed(r) /\ IsRoot(r)
       /\ \E n \in SentFor(TraceIdOf(r)) : Len(sent[n].spans) >= 1
  /\ \E r \in SpanIds :
       IsClosed(r) /\ IsRoot(r) /\ SentFor(TraceIdOf(r)) = {}

\* C3: a tracked span has the trace_id of its nearest tracked ancestor, and a
\* trace_id of its own only when no ancestor is tracked.
C3_TraceIdOfNearestTrackedAncestor ==
  \A i \in SpanIds :
    Tracked(i) =>
      IF NearestTracked(i) # 0
      THEN TraceIdOf(i) = TraceIdOf(NearestTracked(i))
      ELSE \A j \in SpanIds \ {i} :
             Tracked(j) /\ IsRoot(j) => TraceIdOf(j) # TraceIdOf(i)

\* Two closed tracked spans with the same nearest tracked ancestor p.
Siblings(a, b, p) ==
  /\ a # b /\ p # 0
  /\ Tracked(a) /\ IsClosed(a) /\ NearestTracked(a) = p
  /\ Tracked(b) /\ IsClosed(b) /\ NearestTracked(b) = p

\* Every children list there is: the spans of each live Trace and of each
\* transaction sent.
ChildrenLists ==
  {spans[i].trace.spans : i \in {j \in SpanIds : spans[j].trace # NoTrace}}
    \cup {sent[n].spans : n \in 1..Len(sent)}

\* C4: of two tracked siblings under p the one that closed first is in p's
\* spans before the other, and stays before it in every list both are in,
\* the transaction's included.
C4_CloseOrderPreserved ==
  \A a, b, p \in SpanIds :
    Siblings(a, b, p) /\ spans[a].closed_at < spans[b].closed_at =>
      /\ spans[p].trace # NoTrace =>
           {SpanIdOf(a), SpanIdOf(b)} \subseteq SummaryIds(spans[p].trace.spans)
      /\ \A list \in ChildrenLists :
           {SpanIdOf(a), SpanIdOf(b)} \subseteq SummaryIds(list) =>
             Pos(list, SpanIdOf(a)) < Pos(list, SpanIdOf(b))

\* Siblings created in one order and closed in the other, both in a
\* transaction that was sent.
C4_Witness ==
  \E a, b, p \in SpanIds :
    /\ Siblings(a, b, p)
    /\ b < a
    /\ spans[a].closed_at < spans[b].closed_at
    /\ \E n \in 1..Len(sent) :
         {SpanIdOf(a), SpanIdOf(b)} \subseteq SummaryIds(sent[n].spans)

\* The transaction sent for a closed trace root.
TransactionOf(r) == sent[CHOOSE n \in 1..Len(sent) : sent[n].event_id = TraceIdOf(r)]

HasTransaction(r) ==
  IsClosed(r) /\ IsRoot(r) /\ SentFor(TraceIdOf(r)) # {}

\* C5: the transaction of a trace root carries the root's own summary fields:
\* two roots whose transactions differ in nothing but the trace_id have the
\* same structured data (busy and idle included), status and description.
C5_RootSummaryInTransaction ==
  \A r1, r2 \in SpanIds :
    /\ HasTransaction(r1) /\ HasTransaction(r2)
    /\ [TransactionOf(r1) EXCEPT !.event_id = 0]
         = [TransactionOf(r2) EXCEPT !.event_id = 0]
    => /\ spans[r1].span_data[1].data = spans[r2].span_data[1].data
       /\ spans[r1].span_data[1].status = spans[r2].span_data[1].status
       /\ spans[r1].span_data[1].description
            = spans[r2].span_data[1].description

\* The last issue event captured came from an event with an error-kind field
\* emitted inside the span this summary is of.
ErrorEventInside(summary) ==
  /\ last_issue # None
  /\ last_issue[1].trace_context =
       Some([span_id |-> summary.span_id, trace_id |-> summary.trace_id])
  /\ last_issue[1].exception = event_from_error(ErrAttr.chain)

\* The span a summary is of.
SpanOf(summary) ==
  CHOOSE i \in SpanIds : Tracked(i) /\ SpanIdOf(i) = summary.span_id

\* C6 as stated: a child span inside which an event with an error-kind field
\* was emitted has status internal_error in the transaction.
C6_ErrorEventSetsStatus ==
  \A n \in 1..Len(sent) : \A k \in 1..Len(sent[n].spans) :
    ErrorEventInside(sent[n].spans[k]) =>
      sent[n].spans[k].status = Some("internal_error")

\* C6 (amended): in the sequence create R, create C under R, event with an
\* error-kind field inside C, close C, close R, the summary of C has status
\* internal_error when C's own creation attributes hold an error-kind field
\* and ok otherwise; the event's field does not change it.
C6_StatusFromOwnAttributes ==
  \A n \in 1..Len(sent) : \A k \in 1..Len(sent[n].spans) :
    ErrorEventInside(sent[n].spans[k]) =>
      sent[n].spans[k].status =
        IF HasError(spans[SpanOf(sent[n].spans[k])].attrs)
        THEN Some("internal_error") ELSE Some("ok")

C6_Witness ==
  /\ Len(sent) = 1
  /\ \E k \in 1..Len(sent[1].spans) :
       /\ ErrorEventInside(sent[1].spans[k])
       /\ ~HasError(spans[SpanOf(sent[1].spans[k])].attrs)
       /\ sent[1].spans[k].status = Some("ok")

\* C7: the busy and idle written into the summary of a closed tracked span
\* add up to the time between its creation and its close, and busy is the
\* time spent between each enter and its exit.
C7_BusyIdleConservation ==
  \A i \in SpanIds :
    IsClosed(i) /\ Tracked(i) =>
      LET data == spans[i].span_data[1].data
      IN /\ data["busy"].n + data["idle"].n
              = spans[i].clock.closed - spans[i].clock.created
         /\ data["busy"].n = spans[i].clock.inside

\* A span closed after both busy time and idle time, some of the idle time
\* after its last exit.
C7_Witness ==
  \E i \in SpanIds :
    /\ IsClosed(i) /\ Tracked(i)
    /\ spans[i].span_data[1].data["busy"].n >= 1
    /\ spans[i].span_data[1].data["idle"].n >= 2
    /\ spans[i].span_data[1].timestamp[1] < spans[i].clock.closed

Interests(md) == {FilterInterest(l, md) : l \in Layers}

\* C8: register_callsite answers always when a sub-handler answers always,
\* never when all three answer never, and sometimes in every other case.
C8_RegisterInterest ==
  last_hook.hook = "register_callsite" =>
    /\ last_hook.result = "always" <=> "always" \in Interests(last_hook.md)
    /\ last_hook.result = "never" <=> Interests(last_hook.md) = {"never"}
    /\ last_hook.result = "sometimes" <=>
         /\ "always" \notin Interests(last_hook.md)
         /\ Interests(last_hook.md) # {"never"}

\* always through one sub-handler only, and sometimes with no always.
C8_Witness ==
  /\ last_hook.hook = "register_callsite"
  /\ last_hook.result = "sometimes"
  /\ Interests(last_hook.md) = {"never", "sometimes"}

\* The sub-handlers whose own filter admits the metadata.
Admitting(md) == {l \in Layers : FilterEnabled(l, md)}

\* C9: enabled answers true exactly when one of the three filters admits the
\* metadata.
C9_EnabledIsOr ==
  last_hook.hook = "enabled" =>
    (last_hook.result = "true" <=> Admitting(last_hook.md) # {})

C9_Witness ==
  /\ last_hook.hook = "enabled"
  /\ last_hook.result = "true"
  /\ Cardinality(Admitting(last_hook.md)) = 1

LifecycleHooks ==
  {"new_span", "on_record", "on_enter", "on_exit", "on_close", "on_event"}

\* C10, in every state: the last lifecycle hook went to exactly the
\* sub-handlers whose filter admits the metadata, and a span the span filter
\* rejects owns no Span Node.
C10_ForwardedToAdmitting ==
  /\ last_hook.hook \in LifecycleHooks =>
       last_hook.forwarded = Admitting(last_hook.md)
  /\ \A i \in SpanIds :
       Tracked(i) => FilterEnabled("span", spans[i].md)

\* C10, in every step: a breadcrumb or an issue event reaches the sink only
\* from an event its filter admits, and the Span Node of a span the span
\* filter rejects is never created or changed.
C10_NoEffectWhenRejected ==
  /\ last_breadcrumb' # last_breadcrumb =>
       last_hook'.hook = "on_event"
       /\ FilterEnabled("breadcrumb", last_hook'.md)
  /\ last_issue' # last_issue =>
       last_hook'.hook = "on_event" /\ FilterEnabled("event", last_hook'.md)
  /\ \A i \in SpanIds :
       spans'[i].trace # spans[i].trace =>
         FilterEnabled("span", spans'[i].md)

\* C10: every lifecycle hook is forwarded to a sub-handler if and only if
\* that sub-handler's own filter admits the metadata; nothing is sent and no
\* Span Node exists for what the filter concerned rejects.
C10_ForwardedPerSubHandler ==
  []C10_ForwardedToAdmitting /\ [][C10_NoEffectWhenRejected]_vars

\* An event the combined gate admitted through the event filter alone, that
\* left the breadcrumbs alone.
C10_Witness ==
  /\ last_hook.hook = "on_event"
  /\ last_hook.forwarded = {"event"}
  /\ last_issue # None
  /\ last_breadcrumb = None
  /\ \E i \in SpanIds :
       /\ spans[i].state = "closed" /\ ~Tracked(i)
       /\ Admitting(spans[i].md) = {"event", "breadcrumb"}

\* The last event handed to on_event reached the issue sub-handler, and the
\* issue event at the sink is the one built from it.
IssueOfLastEvent ==
  /\ last_hook.hook = "on_event"
  /\ "event" \in last_hook.forwarded
  /\ last_issue # None

\* The display form of an attribute's value.
DisplayOf(a) ==
  CASE a.kind \in {"i64", "u64"} -> IntToString(a.n)
    [] a.kind = "bool" -> BoolToString(a.b)
    [] OTHER -> a.s

\* The exception records of the error-kind attributes, in visitation order.
RECURSIVE ExtractedErrors(_)
ExtractedErrors(attrs) ==
  IF attrs = <<>> THEN <<>>
  ELSE (IF Head(attrs).kind = "error"
        THEN event_from_error(Head(attrs).chain) ELSE <<>>)
       \o ExtractedErrors(Tail(attrs))

\* The promoted label: the display form of the non-error attribute named as
\* the promote key (Option).
PromotedLabel(attrs, promote_key) ==
  LET named == {i \in 1..Len(attrs) :
                  /\ promote_key # None
                  /\ attrs[i].name = promote_key[1]
                  /\ attrs[i].kind # "error"}
  IN IF named = {} THEN None
     ELSE Some(DisplayOf(attrs[CHOOSE i \in named : TRUE]))

\* C11: the exception list of an issue event is the exception records
\* extracted from the event's error-kind attributes, in visitation order and
\* with nothing added, when there is such an attribute; else it is one
\* synthesized record with the event's name as type, the promoted label as
\* message and a stack trace exactly when attach_stacktraces is set.
C11_ExceptionList ==
  IssueOfLastEvent =>
    LET attrs == last_event.attrs
        exception == last_issue[1].exception
    IN IF HasError(attrs)
       THEN exception = ExtractedErrors(attrs)
       ELSE /\ Len(exception) = 1
            /\ exception[1].ty = last_event.md.name
            /\ exception[1].value
                 = PromotedLabel(attrs, options.event_type_field)
            /\ exception[1].stacktrace = options.attach_stacktraces

\* Two error-kind attributes, one of them with a source: three records.
C11_Witness ==
  /\ IssueOfLastEvent
  /\ HasError(last_event.attrs)
  /\ Len(last_issue[1].exception) = 3

\* The span the last event occurred in: its explicit parent, else the span
\* current where it was emitted; 0 when it occurred inside no span.
EnclosingSpan ==
  IF last_event.explicit # 0 THEN last_event.explicit ELSE last_event.current

\* C12: an issue event for an event inside a tracked span carries that span's
\* span_id and trace_id as its trace context; one for an event inside no
\* span carries no trace context.
C12_TraceContext ==
  IssueOfLastEvent =>
    /\ EnclosingSpan # 0 /\ Tracked(EnclosingSpan) =>
         last_issue[1].trace_context
           = Some([span_id |-> SpanIdOf(EnclosingSpan),
                   trace_id |-> TraceIdOf(EnclosingSpan)])
    /\ EnclosingSpan = 0 => last_issue[1].trace_context = None

\* An event with an explicit tracked parent, emitted while another tracked
\* span is current.
C12_Witness ==
  /\ IssueOfLastEvent
  /\ last_event.explicit # 0
  /\ last_event.current # 0
  /\ last_event.current # last_event.explicit
  /\ Tracked(last_event.explicit) /\ Tracked(last_event.current)
  /\ last_issue[1].trace_context
       = Some([span_id |-> SpanIdOf(last_event.explicit),
               trace_id |-> TraceIdOf(last_event.explicit)])

\* The outermost span of the chain enclosing span i: its farthest ancestor,
\* or i itself when it has none.
Outermost(i) ==
  IF Parents(spans, i) = <<>> THEN i
  ELSE Parents(spans, i)[Len(Parents(spans, i))]

\* C13: an issue event for an event inside a tracked span has a transaction
\* name, the name of the outermost span of the enclosing chain, also when
\* the enclosing span is itself the outermost one.
C13_TransactionName ==
  IssueOfLastEvent /\ EnclosingSpan # 0 /\ Tracked(EnclosingSpan) =>
    last_issue[1].transaction = Some(spans[Outermost(EnclosingSpan)].md.name)

\* The last event handed to on_event reached the breadcrumb sub-handler, and
\* the breadcrumb at the sink is the one built from it.
BreadcrumbOfLastEvent ==
  /\ last_hook.hook = "on_event"
  /\ "breadcrumb" \in last_hook.forwarded
  /\ last_breadcrumb # None

\* The string attributes named "log.target" among attrs.
LogTargets(attrs) ==
  {i \in 1..Len(attrs) :
     attrs[i].name = "log.target" /\ attrs[i].kind = "str"}

\* C14: the category of a breadcrumb is the value of the event's string
\* attribute named "log.target" when it has one, and the event's declared
\* target otherwise.
C14_CategoryOverride ==
  BreadcrumbOfLastEvent =>
    LET attrs == last_event.attrs
    IN last_breadcrumb[1].category =
         IF LogTargets(attrs) # {}
         THEN Some(attrs[CHOOSE i \in LogTargets(attrs) : TRUE].s)
         ELSE Some(last_event.md.target)

\* The structured value of a non-error attribute.
JsonOf(a) ==
  CASE a.kind \in {"i64", "u64"} -> NumberValue(a.n)
    [] a.kind = "bool" -> BoolValue(a.b)
    [] OTHER -> StringValue(a.s)

\* Whether a is the attribute promoted under promote_key.
IsPromoted(a, promote_key) ==
  promote_key # None /\ a.name = promote_key[1] /\ a.kind # "error"

\* C15 as stated: every attribute named as the promote key sets the promoted
\* label and is not in the structured map; every error-kind attribute is in
\* the extracted errors and not in the structured map; every other attribute
\* is in the structured map under its name.
C15_PromoteKeySetsLabel ==
  \A i \in SpanIds :
    spans[i].trace # NoTrace =>
      LET attrs == spans[i].attrs
          key == options.event_type_field
          rec == spans[i].trace.visitor
      IN /\ rec.expections = ExtractedErrors(attrs)
         /\ \A k \in 1..Len(attrs) :
              LET a == attrs[k]
              IN /\ key # None /\ a.name = key[1] =>
                      rec.event_type # None
                      /\ a.name \notin DOMAIN rec.json_values
                 /\ a.kind = "error" => a.name \notin DOMAIN rec.json_values
                 /\ a.kind # "error" /\ ~(key # None /\ a.name = key[1]) =>
                      /\ a.name \in DOMAIN rec.json_values
                      /\ rec.json_values[a.name] = JsonOf(a)

\* C15 (amended): in the Field Record of a span's creation attributes every
\* attribute is in exactly one place: an error-kind attribute in the
\* extracted errors only, whatever its name; a non-error attribute named as
\* the promote key in the promoted label only; every other attribute in the
\* structured map under its name only; and the record holds nothing else.
C15_FieldRecordExclusive ==
  \A i \in SpanIds :
    spans[i].trace # NoTrace =>
      LET attrs == spans[i].attrs
          key == options.event_type_field
          rec == spans[i].trace.visitor
          structured == {k \in 1..Len(attrs) :
                          attrs[k].kind # "error" /\ ~IsPromoted(attrs[k], key)}
      IN /\ rec.expections = ExtractedErrors(attrs)
         /\ rec.event_type = PromotedLabel(attrs, key)
         /\ DOMAIN rec.json_values = {attrs[k].name : k \in structured}
         /\ \A k \in structured :
              rec.json_values[attrs[k].name] = JsonOf(attrs[k])

\* A record of an error named as the promote key and one other attribute:
\* two extracted errors, no promoted label, one structured entry.
C15_Witness ==
  \E i \in SpanIds :
    /\ spans[i].trace # NoTrace
    /\ options.event_type_field = Some("kind")
    /\ spans[i].attrs = <<KindErrAttr, KAttr>>
    /\ spans[i].trace.visitor.event_type = None
    /\ Len(spans[i].trace.visitor.expections) = 2
    /\ DOMAIN spans[i].trace.visitor.json_values = {"k"}

\* C16, in every step: the close of a trace root while no client is bound to
\* the hub sends no transaction, writes a local diagnostic and completes;
\* the close of one while a client is bound sends its transaction.
C16_DroppedWithDiagnostic ==
  \A r \in SpanIds :
    spans[r].state = "open" /\ spans'[r].state = "closed" /\ IsRoot(r) =>
      IF hub_active
      THEN /\ Len(sent') = Len(sent) + 1
           /\ sent'[Len(sent')].event_id = TraceIdOf(r)
      ELSE /\ sent' = sent
           /\ Len(diagnostics') = Len(diagnostics) + 1

\* C16: with no reporting context active when a trace root closes, no
\* transaction is sent, a local diagnostic is emitted, the callback returns,
\* and the roots closed once a context is active again are sent.
C16_SinkUnavailable == [][C16_DroppedWithDiagnostic]_vars

\* C17, in every step: when a tracked span c with a tracked ancestor closes,
\* the nearest tracked ancestor p gets c's children and then c's summary,
\* with parent_span_id p's span_id, at the end of its buffer; nothing else
\* of p and no Span Node of another span changes, and nothing is sent.
C17_AttachedToNearest ==
  \A c \in SpanIds :
    /\ spans[c].state = "open" /\ spans'[c].state = "closed"
    /\ Tracked(c) /\ NearestTracked(c) # 0
    => LET p == NearestTracked(c)
           summary == spans'[c].span_data[1]
       IN /\ summary.span_id = SpanIdOf(c)
          /\ summary.parent_span_id = Some(UuidSimpleString(SpanIdOf(p)))
          /\ spans'[p].trace.spans
               = (spans[p].trace.spans \o spans[c].trace.spans) \o <<summary>>
          /\ spans'[p].trace = [spans[p].trace EXCEPT
                                  !.spans = spans'[p].trace.spans]
          /\ \A j \in SpanIds \ {c, p} : spans'[j].trace = spans[j].trace
          /\ sent' = sent

\* C17: a tracked span that closes under some tracked ancestor is merged,
\* children first, into the buffer of the nearest one, and nothing is sent.
C17_CloseWithTrackedAncestor == [][C17_AttachedToNearest]_vars

\* A live span whose buffer holds a grandchild's summary followed by the
\* summary of the child that brought it along.
C17_Witness ==
  \E p \in SpanIds :
    /\ spans[p].trace # NoTrace
    /\ Len(spans[p].trace.spans) = 2
    /\ spans[p].trace.spans[2].parent_span_id
         = Some(UuidSimpleString(spans[p].trace.span_id))
    /\ spans[p].trace.spans[1].parent_span_id
         = Some(UuidSimpleString(spans[p].trace.spans[2].span_id))

\* Every span summary there is: those in the buffer of a live Span Node,
\* those in a transaction sent, and the one each closed tracked span built.
AllSummaries ==
  UNION {{list[k] : k \in 1..Len(list)} : list \in ChildrenLists}
    \cup {spans[i].span_data[1] : i \in {j \in SpanIds : spans[j].span_data # None}}

\* C18: the status of every span summary is internal_error when the span's
\* own creation attributes hold an error-kind attribute and ok when they hold
\* none, whatever was entered, exited or closed under it; and the extracted
\* errors of a live Span Node are non-empty exactly in the first case.
C18_StatusFromCreationAttributes ==
  /\ \A summary \in AllSummaries :
       summary.status =
         IF HasError(spans[SpanOf(summary)].attrs)
         THEN Some("internal_error") ELSE Some("ok")
  /\ \A i \in SpanIds :
       spans[i].trace # NoTrace =>
         (spans[i].trace.visitor.expections # <<>> <=> HasError(spans[i].attrs))

\* The transaction of a root created without an error-kind attribute that
\* holds an internal_error child followed by an ok child.
C18_Witness ==
  \E n \in 1..Len(sent), r \in SpanIds :
    /\ IsClosed(r) /\ IsRoot(r) /\ TraceIdOf(r) = sent[n].event_id
    /\ ~HasError(spans[r].attrs)
    /\ spans[r].span_data[1].status = Some("ok")
    /\ Len(sent[n].spans) = 2
    /\ sent[n].spans[1].status = Some("internal_error")
    /\ sent[n].spans[2].status = Some("ok")

\* The span an on_enter, on_exit or on_close callback of this step is for.
HookedSpan(i) ==
  /\ spans[i].state = "open"
  /\ spans'[i].entered # spans[i].entered \/ spans'[i].state = "closed"

\* C19, in every state: a span the span filter excludes has no Span Node.
C19_ExcludedHasNoNode ==
  \A i \in SpanIds :
    spans[i].state # "none" /\ ~FilterEnabled("span", spans[i].md) =>
      ~Tracked(i)

\* C19, in every step: an on_enter, on_exit or on_close callback for a span
\* with no Span Node, or one the span filter excludes, completes, leaves the
\* Span Node of every span as it was and sends nothing.
C19_NoOpForAggregation ==
  \A i \in SpanIds :
    /\ HookedSpan(i)
    /\ spans[i].trace = NoTrace \/ ~FilterEnabled("span", spans[i].md)
    => /\ last_hook'.hook \in {"on_enter", "on_exit", "on_close"}
       /\ \A j \in SpanIds :
            /\ spans'[j].trace = spans[j].trace
            /\ spans'[j].span_data = spans[j].span_data
       /\ sent' = sent

\* C19: an Entered, Exited or Closed callback for a span without a Span Node
\* (such as one the span filter excludes) raises no error, changes no Span
\* Node and no children buffer, and makes no sink call.
C19_UntrackedHooksNoOp ==
  []C19_ExcludedHasNoNode /\ [][C19_NoOpForAggregation]_vars

\* An excluded span was closed under a live tracked span, whose buffer is
\* still empty.
C19_Witness ==
  \E f, p \in SpanIds :
    /\ last_hook.hook = "on_close"
    /\ last_hook.md = spans[f].md
    /\ IsClosed(f) /\ ~Tracked(f)
    /\ spans[f].parent = p
    /\ spans[p].trace # NoTrace
    /\ spans[p].trace.spans = <<>>

\* C20, in every state: a thread inside on_close holds the lock of at most
\* one ancestor of the closing span, and only between locking it and either
\* skipping it or returning after the append; while Hub::with_active runs it
\* holds the lock of no ancestor.
C20_AncestorLockOnlyForAppend ==
  \A t \in Threads :
    LET id == threads[t].id
        ancestors == threads[t].held \ {id}
    IN /\ threads[t].pc \in {"locked", "walk", "sink"} => ancestors = {}
       /\ threads[t].pc = "parent" => ancestors = {LoopParent(t)}
       /\ threads[t].pc = "return" =>
            \/ ancestors = {}
            \/ /\ ancestors = {LoopParent(t)}
               /\ threads[t].data[1].parent_span_id
                    = Some(UuidSimpleString(SpanIdOf(LoopParent(t))))
       /\ threads[t].pc = "idle" => threads[t].held = {}

\* A thread is inside Hub::with_active for a span with an ancestor that has
\* no Trace, while another thread holds the lock of that ancestor.
C20_Witness ==
  \E t, u \in Threads :
    /\ t # u
    /\ threads[t].pc = "sink"
    /\ Parents(spans, threads[t].id) # <<>>
    /\ threads[u].pc = "parent"
    /\ LoopParent(u) \in Ancestors(threads[t].id)

\* The number of entries of a list that are summaries of the given span_id.
Occurrences(list, span_id) ==
  Cardinality({k \in 1..Len(list) : list[k].span_id = span_id})

\* The buffers of the live Span Nodes and the lists of the transactions sent,
\* one entry per Span Node and per transaction.
BufferOwners == {i \in SpanIds : spans[i].trace # NoTrace}

\* How many times a span's summary is held anywhere.
TimesAggregated(span_id) ==
  LET InBuffers[owners \in SUBSET BufferOwners] ==
        IF owners = {} THEN 0
        ELSE LET o == CHOOSE x \in owners : TRUE
             IN Occurrences(spans[o].trace.spans, span_id)
                  + InBuffers[owners \ {o}]
      InSent[n \in 0..Len(sent)] ==
        IF n = 0 THEN 0
        ELSE Occurrences(sent[n].spans, span_id) + InSent[n - 1]
  IN InBuffers[BufferOwners] + InSent[Len(sent)]

\* C21: every summary in the buffer of a live Span Node is that of a closed
\* span that is a descendant of the node's span; and the summary of a
\* tracked span is held at most once over all buffers and transactions, and
\* not at all before the span has closed.
C21_BufferHoldsClosedDescendants ==
  /\ \A p \in BufferOwners :
       \A k \in 1..Len(spans[p].trace.spans) :
         LET d == SpanOf(spans[p].trace.spans[k])
         IN IsClosed(d) /\ p \in Ancestors(d)
  /\ \A i \in SpanIds :
       Tracked(i) =>
         /\ TimesAggregated(SpanIdOf(i)) <= 1
         /\ ~IsClosed(i) => TimesAggregated(SpanIdOf(i)) = 0

\* A live Span Node holds the summary of a closed span that is not its
\* child but a deeper descendant, and that summary is held exactly once.
C21_Witness ==
  \E p \in BufferOwners :
    /\ Len(spans[p].trace.spans) >= 1
    /\ LET d == SpanOf(spans[p].trace.spans[1])
       IN /\ spans[d].parent # p
          /\ IsClosed(d)
          /\ TimesAggregated(SpanIdOf(d)) = 1

\* The threads that are inside a callback.
Running == {t \in Threads : threads[t].pc # "idle"}

\* A running callback holds the lock of its own span and of at most one
\* other span, which is an ancestor of its own; no lock has two holders.
C22_ChildToAncestorOrder ==
  /\ \A t \in Running :
       /\ threads[t].id \in threads[t].held
       /\ threads[t].held \ {threads[t].id} \subseteq Ancestors(threads[t].id)
       /\ Cardinality(threads[t].held \ {threads[t].id}) <= 1
  /\ \A i \in SpanIds : Cardinality(LockHolders(i)) <= 1

\* Whenever callbacks are running, one of them can take its next step.
C22_SomeCallbackCanStep ==
  Running # {} => \E t \in Running : ENABLED ThreadStep(t)

\* C22: deadlock freedom. Callbacks of new_span and on_close running
\* concurrently on spans of one tree take locks from child to ancestor only,
\* one ancestor at a time; they never all wait on each other; and every
\* callback that has started returns.
C22_DeadlockFreedom ==
  /\ [](C22_ChildToAncestorOrder /\ C22_SomeCallbackCanStep)
  /\ \A t \in Threads : (threads[t].pc # "idle") ~> (threads[t].pc = "idle")

\* A new_span holding the lock of its new span waits for the parent, whose
\* lock an on_close of another child holds, about to append to its Trace.
C22_Witness ==
  \E t, u \in Threads :
    /\ threads[t].pc = "created"
    /\ threads[u].pc = "parent"
    /\ spans[threads[t].id].parent \in threads[u].held
    /\ spans[spans[threads[t].id].parent].trace # NoTrace
    /\ ~ENABLED NewSpanInsert(t)

\* The children lists with the span_id of their owner: the buffer of each
\* live Span Node, and the list of each transaction with the root that
\* emitted it.
OwnedLists ==
  {[owner |-> spans[p].trace.span_id, list |-> spans[p].trace.spans] :
     p \in BufferOwners}
    \cup {[owner |-> SpanIdOf(r), list |-> TransactionOf(r).spans] :
            r \in {i \in SpanIds : HasTransaction(i)}}

\* C23: every children list is flat and in post-order: a descendant's
\* summary is before its ancestor's, and the parent_span_id of each summary
\* names a later entry of the list or the owner of the list.
C23_PostOrder ==
  \A o \in OwnedLists :
    /\ \A j, k \in 1..Len(o.list) :
         SpanOf(o.list[k]) \in Ancestors(SpanOf(o.list[j])) => j < k
    /\ \A k \in 1..Len(o.list) :
         \/ o.list[k].parent_span_id = Some(UuidSimpleString(o.owner))
         \/ \E j \in (k + 1)..Len(o.list) :
              o.list[k].parent_span_id
                = Some(UuidSimpleString(o.list[j].span_id))

\* A transaction was sent whose list holds a grandchild of the root before
\* the child it was created under.
C23_Witness ==
  \E r \in SpanIds :
    /\ HasTransaction(r)
    /\ Len(TransactionOf(r).spans) = 2
    /\ spans[SpanOf(TransactionOf(r).spans[1])].parent
         = SpanOf(TransactionOf(r).spans[2])
    /\ spans[SpanOf(TransactionOf(r).spans[2])].parent = r

\* C24, in every step: an on_event or on_record callback leaves every span,
\* and with it every Span Node (field record, timing counters, children
\* buffer) and every summary already built, as it was.
C24_NodesUntouched ==
  last_hook'.hook \in {"on_event", "on_record"} =>
    \A i \in SpanIds : spans'[i] = spans[i]

\* C24, in every state: the field record of a live Span Node is what the
\* creation attributes alone give, and with it the status of its summary.
C24_RecordOfCreationOnly ==
  \A i \in SpanIds :
    spans[i].trace # NoTrace =>
      /\ spans[i].trace.visitor
           = RecordAll(options.event_type_field, FieldVisitorResult_default,
                       spans[i].attrs)
      /\ spans[i].trace.visitor.expections = ExtractedErrors(spans[i].attrs)

\* C24: on_event and on_record never change a Span Node; a span's field
\* record reflects only its creation-time attributes.
C24_EventsAndRecordsLeaveNodes ==
  []C24_RecordOfCreationOnly /\ [][C24_NodesUntouched]_vars

\* An error value was just recorded on an open span that has a Span Node,
\* the hook went to the span sub-handler, and the node's record still holds
\* no error.
C24_Witness ==
  /\ last_hook.hook = "on_record"
  /\ "span" \in last_hook.forwarded
  /\ \E i \in OpenIds :
       /\ spans[i].trace # NoTrace
       /\ spans[i].entered
       /\ spans[i].trace.visitor.expections = <<>>

\* C25: in every span summary the keys busy and idle of the structured data
\* hold the timing counters of the span, as numbers, whatever creation
\* attributes of these names the span has.
C25_BusyIdleAreTimings ==
  \A summary \in AllSummaries :
    LET clock == spans[SpanOf(summary)].clock
    IN /\ summary.data["busy"] = NumberValue(clock.inside)
       /\ summary.data["idle"]
            = NumberValue((clock.closed - clock.created) - clock.inside)

\* A span created with attributes busy = 7 and idle = "never" closed after
\* some busy and some idle time, and its summary holds neither value.
C25_Witness ==
  \E i \in SpanIds :
    /\ IsClosed(i) /\ Tracked(i)
    /\ spans[i].attrs = <<BusyAttr, IdleAttr>>
    /\ spans[i].clock.inside >= 1
    /\ spans[i].clock.closed - spans[i].clock.created > spans[i].clock.inside
    /\ spans[i].span_data[1].data["busy"] # NumberValue(7)
    /\ spans[i].span_data[1].data["idle"] # StringValue("never")

====
